---- MODULE Spec2Model ----
(***************************************************************************)
(* A model of beta/colabfold_alphafold.py: the jackhmmer search with its   *)
(* mirror race and pickle cache (run_jackhmmer), input normalisation       *)
(* (prep_inputs), MSA gathering, padding and pairing (prep_msa), the       *)
(* optional filter (prep_filter) and the subsampling safeguard             *)
(* (do_subsample_msa).  Strings are sequences of one-character strings.    *)
(***************************************************************************)
EXTENDS Integers, Sequences, FiniteSets, TLC

VARIABLES
  \* ---- run_jackhmmer ----
  files,              \* the disk: prefix -> content of '<prefix>.jackhmmer.pickle'
  jpc,                \* position of the current run_jackhmmer call
  prefix,             \* its prefix argument
  probe,              \* state of the three fetch() futures, by source
  order,              \* sources in the order their futures completed
  finished,           \* futures already done when as_completed() was entered
  source,             \* local variable source
  dbs,                \* local list dbs
  k,                  \* index of the next (db_name, db_results) of the loop
  msas,               \* local list msas
  deletion_matrices,  \* local list deletion_matrices
  names,              \* local list names
  error,              \* the exception that ended the call, "" if none
  ret,                \* the value the call returned
  ncalls,             \* calls made so far
  probed,             \* history: the current call submitted the probes
  searched,           \* history: the current call queried the databases
  file_at_start,      \* history: content of the cache file when the call began
  first_ok,           \* history: prefix -> value of its first successful call
  ok_before,          \* history: the prefix had a successful call before this one
  \* ---- prep_inputs ----
  ipc,                \* position of the prep_inputs call
  in_sequence,        \* argument sequence
  in_homooligomer,    \* argument homooligomer
  in_verbose,         \* argument verbose
  ierror,             \* the exception that ended prep_inputs, "" if none
  I,                  \* the job dict I (prep_inputs makes it, prep_msa fills it)
  \* ---- prep_msa ----
  mpc,                \* position of the prep_msa call
  msa_method,         \* argument msa_method
  pair_mode,          \* argument pair_mode
  custom,             \* add_custom_msa: "no", or the upload "fits" / "misfits"
  pairmsa_bound,      \* whether the global name pairmsa is bound in this module
  n_,                 \* chain index of the loop of line 247
  a_,                 \* chain index a of the loops of lines 286 and 310
  b_,                 \* chain index b of the loop of line 312
  _data,              \* local list _data
  merror,             \* the exception that ended prep_msa, "" if none
  stitched,           \* history: the pairs (a, b) handed to pairmsa._stitch
  kinds,              \* history: what each track of I["msas"] was made from
  \* ---- prep_filter ----
  fpc,                \* position of the prep_filter call
  heap,               \* the dict objects; the caller's job is object 1
  I_before,           \* history: the caller's job as it was at the call
  f_trim,             \* local trim, after the substitutions of lines 347-350
  f_inverse,          \* argument trim_inverse
  f_cov,              \* argument cov
  f_qid,              \* argument qid
  f_ret,              \* the object returned, 0 if none
  ferror,             \* the exception that ended prep_filter, "" if none
  \* ---- do_subsample_msa ----
  spc,                \* position of the do_subsample_msa call
  F,                  \* argument F, the feature dict
  s_perm,             \* what np.random.permutation gave for the seed
  F_,                 \* the dict returned
  s_same,             \* whether the dict returned is the object F itself
  \* ---- hit assembly of one database (lines 102-121) ----
  apc,                \* position of the assembly
  a_db,               \* db_name
  a_n,                \* rows the search found, the query's row included
  a_chunks,           \* number of chunks the search streamed
  a_pattern,          \* how the e-values run over the hits
  a_out               \* the three tuples made, or the exception

jvars == <<files, jpc, prefix, probe, order, finished, source, dbs, k, msas,
           deletion_matrices, names, error, ret, ncalls, probed, searched,
           file_at_start, first_ok, ok_before>>

ivars == <<ipc, in_sequence, in_homooligomer, in_verbose, ierror>>

mvars == <<mpc, msa_method, pair_mode, custom, pairmsa_bound, n_, a_, b_,
           _data, merror, stitched, kinds>>

fvars == <<fpc, heap, I_before, f_trim, f_inverse, f_cov, f_qid, f_ret,
           ferror>>

svars == <<spc, F, s_perm, F_, s_same>>

avars == <<apc, a_db, a_n, a_chunks, a_pattern, a_out>>

vars == <<jvars, ivars, I, mvars, fvars, svars, avars>>

\* what each group of operations leaves alone
NotJ == <<ivars, I, mvars, fvars, svars, avars>>
NotI == <<jvars, mvars, fvars, svars, avars>>
NotM == <<jvars, ivars, fvars, svars, avars>>
NotF == <<jvars, ivars, I, mvars, svars, avars>>
NotS == <<jvars, ivars, I, mvars, fvars, avars>>
NotA == <<jvars, ivars, I, mvars, fvars, svars>>

Min(a, b) == IF a < b THEN a ELSE b

(***************************************************************************)
(* run_jackhmmer                                                           *)
(***************************************************************************)
MaxCalls == 2

Prefixes == {"h1", "h2"}

SourceList == <<"", "-europe", "-asia">>
Sources == {SourceList[i] : i \in 1..Len(SourceList)}

DbNames == <<"uniref90", "smallbfd", "mgnify">>

mgnify_max_hits == 501

\* A target name 'base/range', the base kept as a word and a number ('U7'
\* is <<"U", 7>>); the query's row is named plain 'query'.
TargetName(base, rng) == [base |-> base, rng |-> rng]
QueryName == TargetName(<<"query", 0>>, "")

\* t.split('/')[0]
SplitSlash0(t) == t.base

\* One row of a Stockholm block: aligned string, deletion row, target name.
Row(i, nm) == [msa |-> <<"msa", i>>, del |-> <<"del", i>>, name |-> nm]

\* parsers.parse_stockholm: three parallel lists.
parse_stockholm(sto) ==
  [msa              |-> [j \in 1..Len(sto) |-> sto[j].msa],
   deletion_matrix  |-> [j \in 1..Len(sto) |-> sto[j].del],
   target_names     |-> [j \in 1..Len(sto) |-> sto[j].name]]

\* line 106 raises KeyError when a target has no row in the tblout table
e_values_KeyError(result) ==
  LET p == parse_stockholm(result.sto)
  IN \E j \in 1..Len(p.target_names) :
        SplitSlash0(p.target_names[j]) \notin DOMAIN result.tbl

\* lines 104-110: the zipped rows of chunk i (1 is the first chunk)
zipped_results(result, i) ==
  LET p == parse_stockholm(result.sto)
      e_values == [j \in 1..Len(p.target_names) |->
                     result.tbl[SplitSlash0(p.target_names[j])]]
      z == [j \in 1..Len(p.msa) |->
              <<p.msa[j], p.deletion_matrix[j], p.target_names[j], e_values[j]>>]
  IN IF i # 1 THEN SelectSeq(z, LAMBDA x : x[3] # QueryName) ELSE z

\* lines 102-111
RECURSIVE unsorted_results(_, _)
unsorted_results(db_results, i) ==
  IF i > Len(db_results) THEN <<>>
  ELSE zipped_results(db_results[i], i) \o unsorted_results(db_results, i + 1)

\* line 112: sorted() is stable
sorted_by_evalue(u) ==
  LET before(a, b) == \/ a[1][4] < b[1][4]
                      \/ a[1][4] = b[1][4] /\ a[2] < b[2]
      s == SortSeq([i \in 1..Len(u) |-> <<u[i], i>>], before)
  IN [r \in 1..Len(u) |-> s[r][1]]

\* every database cut to the limit of mgnify
Truncate_every(db_name, s) == SubSeq(s, 1, Min(Len(s), mgnify_max_hits))

\* lines 115-118
Truncate(db_name, s) ==
  IF db_name = "mgnify" THEN SubSeq(s, 1, Min(Len(s), mgnify_max_hits)) ELSE s

\* lines 102-121 for one database: the exception raised, or the three tuples
AssembleDb(db_name, db_results) ==
  IF \E i \in 1..Len(db_results) : e_values_KeyError(db_results[i])
  THEN [err |-> "KeyError", db_msas |-> <<>>, db_deletion_matrices |-> <<>>,
        db_names |-> <<>>]
  ELSE LET s == sorted_by_evalue(unsorted_results(db_results, 1))
       IN IF s = <<>>
          THEN [err |-> "ValueError", db_msas |-> <<>>,
                db_deletion_matrices |-> <<>>, db_names |-> <<>>]
          ELSE [err |-> "",
                db_msas |-> Truncate(db_name, [j \in 1..Len(s) |-> s[j][1]]),
                db_deletion_matrices |->
                    Truncate(db_name, [j \in 1..Len(s) |-> s[j][2]]),
                db_names |-> Truncate(db_name, [j \in 1..Len(s) |-> s[j][3]])]

\* pickle.dump / pickle.load of one object
Absent == [kind |-> "absent"]
CorruptFile == [kind |-> "corrupt"]
pickle_dump(obj) == [kind |-> "pickle", obj |-> obj]
\* a pickle of a dict without the key 'names'
NoFieldFile == pickle_dump([msas |-> <<>>, deletion_matrices |-> <<>>])

\* os.path.isfile
isfile(f) == f.kind # "absent"

\* lines 36-37: the exception raised, "" if none
LoadError(f) ==
  IF f.kind # "pickle" THEN "UnpicklingError"
  ELSE IF {"msas", "deletion_matrices", "names"} \subseteq DOMAIN f.obj
       THEN "" ELSE "KeyError"

Bundle(m, d, n) == [msas |-> m, deletion_matrices |-> d, names |-> n]
NoRet == Bundle(<<>>, <<>>, <<>>)

\* The results a database search may stream back.
QueryRow == Row(0, QueryName)
Chunk(sto, tbl) == [sto |-> sto, tbl |-> tbl]
DbResultsSmall ==
  { <<Chunk(<<QueryRow>>, [b \in {QueryName.base} |-> 0])>>,
    <<Chunk(<<QueryRow, Row(1, TargetName(<<"U", 1>>, "1-5"))>>,
            [b \in {QueryName.base, <<"U", 1>>} |->
               IF b = QueryName.base THEN 0 ELSE 2]),
      Chunk(<<QueryRow, Row(2, TargetName(<<"U", 2>>, "2-6"))>>,
            [b \in {QueryName.base, <<"U", 2>>} |->
               IF b = QueryName.base THEN 0 ELSE 1])>>,
    <<Chunk(<<QueryRow, Row(3, TargetName(<<"U", 3>>, "1-4"))>>,
            [b \in {QueryName.base} |-> 0])>> }

JIdle == jpc \in {"idle", "returned", "raised"}

\* everything of run_jackhmmer but the disk, before the first call
JStart ==
  /\ jpc = "idle"
  /\ prefix = "h1"
  /\ probe = [s \in Sources |-> "none"]
  /\ order = <<>>
  /\ finished = {}
  /\ source = "None"
  /\ dbs = <<>>
  /\ k = 0
  /\ msas = <<>>
  /\ deletion_matrices = <<>>
  /\ names = <<>>
  /\ error = ""
  /\ ret = NoRet
  /\ ncalls = 0
  /\ probed = FALSE
  /\ searched = FALSE
  /\ file_at_start = Absent
  /\ first_ok = [p \in Prefixes |-> [ok |-> FALSE, val |-> NoRet]]
  /\ ok_before = FALSE

\* the cache file of a prefix is missing, or was left unreadable or without
\* a field by an earlier session
JInit ==
  /\ files \in [Prefixes -> {Absent, CorruptFile, NoFieldFile}]
  /\ JStart

\* run_jackhmmer at rest
JQuiet ==
  /\ files = [p \in Prefixes |-> Absent]
  /\ JStart

NoteReturn(p, r) ==
  first_ok' = IF first_ok[p].ok THEN first_ok
              ELSE [first_ok EXCEPT ![p] = [ok |-> TRUE, val |-> r]]

\* lines 28-40 and 128: a call that finds the pickle file
CallCached(p) ==
  /\ UNCHANGED NotJ
  /\ JIdle /\ ncalls < MaxCalls
  /\ isfile(files[p])
  /\ ncalls' = ncalls + 1
  /\ prefix' = p
  /\ file_at_start' = files[p]
  /\ ok_before' = first_ok[p].ok
  /\ probed' = FALSE /\ searched' = FALSE
  /\ source' = "None" /\ dbs' = <<>> /\ k' = 0 /\ finished' = {}
  /\ IF LoadError(files[p]) # ""
     THEN /\ jpc' = "raised"
          /\ error' = LoadError(files[p])
          /\ msas' = <<>> /\ deletion_matrices' = <<>> /\ names' = <<>>
          /\ ret' = NoRet
          /\ UNCHANGED first_ok
     ELSE /\ jpc' = "returned"
          /\ error' = ""
          /\ msas' = <<>> /\ deletion_matrices' = <<>> /\ names' = <<>>
          /\ ret' = Bundle(files[p].obj["msas"],
                           files[p].obj["deletion_matrices"],
                           files[p].obj["names"])
          /\ NoteReturn(p, ret')
  /\ probe' = [s \in Sources |-> "none"] /\ order' = <<>>
  /\ UNCHANGED files

\* lines 28-35, 41-48: no pickle file, the three probes are submitted
CallFresh(p) ==
  /\ UNCHANGED NotJ
  /\ JIdle /\ ncalls < MaxCalls
  /\ ~isfile(files[p])
  /\ ncalls' = ncalls + 1
  /\ prefix' = p
  /\ file_at_start' = files[p]
  /\ ok_before' = first_ok[p].ok
  /\ probed' = TRUE /\ searched' = FALSE
  /\ probe' = [s \in Sources |-> "pending"]
  /\ order' = <<>>
  /\ finished' = {}
  /\ source' = "None" /\ dbs' = <<>> /\ k' = 0
  /\ msas' = <<>> /\ deletion_matrices' = <<>> /\ names' = <<>>
  /\ error' = "" /\ ret' = NoRet
  /\ jpc' = "submitted"
  /\ UNCHANGED <<files, first_ok>>

\* lines 45-47: one worker's fetch() ends, by returning or by raising
ProbeDone(s, outcome) ==
  /\ UNCHANGED NotJ
  /\ probe[s] = "pending"
  /\ probe' = [probe EXCEPT ![s] = outcome]
  /\ order' = Append(order, s)
  /\ UNCHANGED <<files, jpc, prefix, finished, source, dbs, k, msas,
                 deletion_matrices, names, error, ret, ncalls, probed,
                 searched, file_at_start, first_ok, ok_before>>

\* line 50: as_completed() notes the futures that are already done
AsCompleted ==
  /\ UNCHANGED NotJ
  /\ jpc = "submitted"
  /\ finished' = {s \in Sources : probe[s] # "pending"}
  /\ jpc' = "as_completed"
  /\ UNCHANGED <<files, prefix, probe, order, source, dbs, k, msas,
                 deletion_matrices, names, error, ret, ncalls, probed,
                 searched, file_at_start, first_ok, ok_before>>

\* The future as_completed() yields first: any of those already done when it
\* was entered (it keeps them in a set), else the first to complete after.
FirstYielded ==
  IF finished # {} THEN finished
  ELSE IF order # <<>> THEN {order[1]} ELSE {}

\* line 51: f.result() of the first future yielded
Select(f) ==
  /\ UNCHANGED NotJ
  /\ jpc = "as_completed"
  /\ f \in FirstYielded
  /\ IF probe[f] = "fail"
     THEN /\ jpc' = "raised"
          /\ error' = "URLError"
          /\ UNCHANGED source
     ELSE /\ jpc' = "shutdown"
          /\ source' = f
          /\ UNCHANGED error
  /\ UNCHANGED <<files, prefix, probe, order, finished, dbs, k, msas,
                 deletion_matrices, names, ret, ncalls, probed, searched,
                 file_at_start, first_ok, ok_before>>

\* lines 52-53: ex.shutdown() waits for the workers, then break
Shutdown ==
  /\ UNCHANGED NotJ
  /\ jpc = "shutdown"
  /\ \A s \in Sources : probe[s] # "pending"
  /\ jpc' = "search"
  \* the futures are not read again
  /\ probe' = [s \in Sources |-> "none"] /\ order' = <<>> /\ finished' = {}
  /\ UNCHANGED <<files, prefix, source, dbs, k, msas, deletion_matrices,
                 names, error, ret, ncalls, probed, searched, file_at_start,
                 first_ok, ok_before>>

\* lines 55-100: the three databases are queried in turn
Search(r) ==
  /\ UNCHANGED NotJ
  /\ jpc = "search"
  /\ dbs' = [i \in 1..Len(DbNames) |-> <<DbNames[i], r[i]>>]
  /\ searched' = TRUE
  /\ msas' = <<>> /\ deletion_matrices' = <<>> /\ names' = <<>>
  /\ k' = 1
  /\ jpc' = "assemble"
  /\ UNCHANGED <<files, prefix, probe, order, finished, source, error, ret,
                 ncalls, probed, file_at_start, first_ok, ok_before>>

\* lines 119-121
AppendDb(a) ==
  /\ msas' = Append(msas, a.db_msas)
  /\ deletion_matrices' = Append(deletion_matrices, a.db_deletion_matrices)
  /\ names' = Append(names, a.db_names)

\* a dump placed before the appends of lines 119-121
DumpPickle_stale ==
  files' = [files EXCEPT ![prefix] =
              pickle_dump([msas |-> msas,
                           deletion_matrices |-> deletion_matrices,
                           names |-> names])]

\* lines 125-127
DumpPickle ==
  files' = [files EXCEPT ![prefix] =
              pickle_dump([msas |-> msas',
                           deletion_matrices |-> deletion_matrices',
                           names |-> names'])]

\* The call's frame is left: its locals and its executor are dropped.
FrameGone ==
  /\ probe' = [s \in Sources |-> "none"]
  /\ order' = <<>>
  /\ finished' = {}
  /\ source' = "None"
  /\ dbs' = <<>>
  /\ k' = 0
  /\ msas' = <<>> /\ deletion_matrices' = <<>> /\ names' = <<>>

\* lines 101-127: one pass of the loop over dbs
AssembleStep ==
  /\ UNCHANGED NotJ
  /\ jpc = "assemble"
  /\ k <= Len(dbs)
  /\ LET a == AssembleDb(dbs[k][1], dbs[k][2])
     IN IF a.err # ""
        THEN /\ jpc' = "raised"
             /\ error' = a.err
             /\ FrameGone
             /\ UNCHANGED files
        ELSE /\ AppendDb(a)
             /\ DumpPickle
             /\ k' = k + 1
             /\ UNCHANGED <<jpc, error, probe, order, finished, source, dbs>>
  /\ UNCHANGED <<prefix, ret, ncalls, probed, searched, file_at_start,
                 first_ok, ok_before>>

\* line 128
Return ==
  /\ UNCHANGED NotJ
  /\ jpc = "assemble"
  /\ k > Len(dbs)
  /\ jpc' = "returned"
  /\ ret' = Bundle(msas, deletion_matrices, names)
  /\ NoteReturn(prefix, ret')
  /\ FrameGone
  /\ UNCHANGED <<files, prefix, error, ncalls, probed, searched,
                 file_at_start, ok_before>>

JNext ==
  \/ \E p \in Prefixes : CallCached(p)
  \/ \E p \in Prefixes : CallFresh(p)
  \/ \E s \in Sources, o \in {"ok", "fail"} : ProbeDone(s, o)
  \/ AsCompleted
  \/ \E f \in Sources : Select(f)
  \/ Shutdown
  \/ \E r \in [1..Len(DbNames) -> DbResultsSmall] : Search(r)
  \/ AssembleStep
  \/ Return

(***************************************************************************)
(* Strings and the regular-expression substitutions of prep_inputs         *)
(***************************************************************************)
MaxSeqLen   == 5
MaxOligoLen == 3

UpperLetters == {"A", "B", "C", "D", "E", "F", "G", "H", "I", "J", "K", "L",
                 "M", "N", "O", "P", "Q", "R", "S", "T", "U", "V", "W", "X",
                 "Y", "Z"}
Digits == {"0", "1", "2", "3", "4", "5", "6", "7", "8", "9"}

\* the characters the arguments are drawn from
SeqAlphabet   == {"a", ":"}
OligoAlphabet == {"2", "3", ":", "x"}
StringsUpTo(alphabet, n) == UNION {[1..m -> alphabet] : m \in 0..n}
\* sequences with domain breaks '/'
WithBreaks == { <<"a", "/", "a">>, <<"a", "/", ":", "a">>,
                <<"a", ":", "/", ":", "a">>, <<"/", "a", ":", "a", "/">> }

\* str.upper(), on the letters of the alphabets above
Upper(s) == [j \in 1..Len(s) |-> IF s[j] = "a" THEN "A"
                                 ELSE IF s[j] = "b" THEN "B"
                                 ELSE IF s[j] = "x" THEN "X" ELSE s[j]]

\* re.sub("[^...]", "", s): only the characters of keep stay
Keep(s, keep) == SelectSeq(s, LAMBDA c : c \in keep)

RECURSIVE DropWhile(_, _)
DropWhile(s, set) ==
  IF s # <<>> /\ Head(s) \in set THEN DropWhile(Tail(s), set) ELSE s

\* re.sub("[set]+", repl, s): each maximal run of set becomes repl
RECURSIVE SubRuns(_, _, _)
SubRuns(s, set, repl) ==
  IF s = <<>> THEN <<>>
  ELSE IF Head(s) \in set
       THEN repl \o SubRuns(DropWhile(s, set), set, repl)
       ELSE <<Head(s)>> \o SubRuns(Tail(s), set, repl)

\* re.sub("^[set]+", "", s)
StripLeading(s, set) == DropWhile(s, set)

\* re.sub("[set]+$", "", s)
RECURSIVE StripTrailing(_, _)
StripTrailing(s, set) ==
  IF s # <<>> /\ s[Len(s)] \in set
  THEN StripTrailing(SubSeq(s, 1, Len(s) - 1), set) ELSE s

\* s.replace(c, "")
Remove(s, c) == SelectSeq(s, LAMBDA x : x # c)

\* s.split(sep): always at least one piece
RECURSIVE Split(_, _)
Split(s, sep) ==
  IF \A j \in 1..Len(s) : s[j] # sep THEN <<s>>
  ELSE LET j == CHOOSE i \in 1..Len(s) :
                   s[i] = sep /\ \A h \in 1..(i - 1) : s[h] # sep
       IN <<SubSeq(s, 1, j - 1)>> \o Split(SubSeq(s, j + 1, Len(s)), sep)

\* sep.join(pieces)
RECURSIVE Join(_, _)
Join(pieces, sep) ==
  IF pieces = <<>> THEN <<>>
  ELSE IF Len(pieces) = 1 THEN pieces[1]
       ELSE pieces[1] \o <<sep>> \o Join(Tail(pieces), sep)

DigitVal(c) == CHOOSE d \in 0..9 :
                 <<"0", "1", "2", "3", "4", "5", "6", "7", "8", "9">>[d + 1] = c
DigitChar(d) == <<"0", "1", "2", "3", "4", "5", "6", "7", "8", "9">>[d + 1]

\* int(h) raises ValueError on the empty string
IntOk(h) == h # <<>> /\ \A j \in 1..Len(h) : h[j] \in Digits

RECURSIVE int(_)
int(h) == IF Len(h) = 1 THEN DigitVal(h[1])
          ELSE 10 * int(SubSeq(h, 1, Len(h) - 1)) + DigitVal(h[Len(h)])

RECURSIVE str(_)
str(n) == IF n < 10 THEN <<DigitChar(n)>>
          ELSE str(n \div 10) \o <<DigitChar(n % 10)>>

\* sum(lengths[:n])
RECURSIVE SumTo(_, _)
SumTo(lengths, n) == IF n = 0 THEN 0 ELSE lengths[n] + SumTo(lengths, n - 1)

\* the entries of s at the positions of keep, in order
Pick(s, keep) ==
  LET at == SelectSeq([i \in 1..Len(s) |-> i], LAMBDA i : i \in keep)
  IN [j \in 1..Len(at) |-> s[at[j]]]

\* s * h, kept as the pair of the string and the number of copies
Times(s, h) == [s |-> s, h |-> h]
RECURSIVE BlocksLen(_)
BlocksLen(blocks) ==
  IF blocks = <<>> THEN 0
  ELSE Len(blocks[1].s) * blocks[1].h + BlocksLen(Tail(blocks))

(***************************************************************************)
(* prep_inputs                                                             *)
(***************************************************************************)
\* lines 132-136
CleanSequence(sequence) ==
  LET s1 == Keep(Upper(sequence), UpperLetters \cup {":", "/"})
      s2 == SubRuns(s1, {":"}, <<":">>)
      s3 == SubRuns(s2, {"/"}, <<"/">>)
      s4 == StripLeading(s3, {":", "/"})
  IN StripTrailing(s4, {":", "/"})

\* lines 138-143
CleanHomooligomer(homooligomer) ==
  LET h1 == SubRuns(homooligomer, {":", "/"}, <<":">>)
      h2 == StripLeading(h1, {":", "/"})
      h3 == StripTrailing(h2, {":", "/"})
      h4 == IF Len(h3) = 0 THEN <<"1">> ELSE h3
  IN Keep(h4, Digits \cup {":"})

\* lines 154-162: the list homooligomers made as long as seqs
AdjustHomooligomers(homooligomers, n) ==
  IF n # Len(homooligomers)
  THEN IF Len(homooligomers) = 1
       THEN [j \in 1..n |-> homooligomers[1]]
       ELSE LET padded ==
                  homooligomers \o
                    [j \in 1..(IF n > Len(homooligomers)
                               THEN n - Len(homooligomers) ELSE 0) |-> 1]
            IN SubSeq(padded, 1, n)
  ELSE homooligomers

NoJob ==
  [ori_sequence |-> <<>>, sequence |-> <<>>, seqs |-> <<>>,
   homooligomer |-> <<>>, homooligomers |-> <<>>, msas |-> <<>>,
   deletion_matrices |-> <<>>, full_sequence |-> <<>>, lengths |-> <<>>]

\* lines 132-167: the dict I, unless int() raises at line 150
MakeJob(sequence_arg, homooligomer_arg) ==
  LET sequence == CleanSequence(sequence_arg)
      homooligomer == CleanHomooligomer(homooligomer_arg)
      seqs == Split(Remove(sequence, "/"), ":")
      pieces == Split(homooligomer, ":")
  IN IF \E j \in 1..Len(pieces) : ~IntOk(pieces[j])
     THEN [err |-> "ValueError", I |-> NoJob]
     ELSE LET given == [j \in 1..Len(pieces) |-> int(pieces[j])]
              homooligomers == AdjustHomooligomers(given, Len(seqs))
          IN [err |-> "",
              I |-> [ori_sequence |-> sequence,
                     sequence |-> Remove(Remove(sequence, "/"), ":"),
                     seqs |-> seqs,
                     homooligomer |->
                        IF Len(seqs) # Len(given)
                        THEN Join([j \in 1..Len(homooligomers) |->
                                     str(homooligomers[j])], ":")
                        ELSE homooligomer,
                     homooligomers |-> homooligomers,
                     msas |-> <<>>,
                     deletion_matrices |-> <<>>,
                     full_sequence |->
                        [j \in 1..Min(Len(seqs), Len(homooligomers)) |->
                           Times(seqs[j], homooligomers[j])],
                     lengths |-> [j \in 1..Len(seqs) |-> Len(seqs[j])]]]

IInit ==
  /\ ipc = "start"
  /\ in_sequence \in StringsUpTo(SeqAlphabet, MaxSeqLen) \cup WithBreaks
  /\ in_homooligomer \in StringsUpTo(OligoAlphabet, MaxOligoLen)
  /\ in_verbose = FALSE
  /\ I = NoJob
  /\ ierror = ""

\* prep_inputs at rest
IQuiet ==
  /\ ipc = "idle" /\ in_sequence = <<>> /\ in_homooligomer = <<>>
  /\ in_verbose = FALSE /\ ierror = ""

\* lines 130-167
Normalize(verbose) ==
  /\ UNCHANGED NotI
  /\ ipc = "start"
  /\ in_verbose' = verbose
  /\ LET r == MakeJob(in_sequence, in_homooligomer)
     IN /\ I' = r.I
        /\ ierror' = r.err
        /\ ipc' = IF r.err = "" THEN "normalized" ELSE "raised"
  /\ UNCHANGED <<in_sequence, in_homooligomer>>

\* lines 169-187: the directory, the warnings and the return; the name
\* full_sequence of line 179 is bound nowhere
Finish ==
  /\ UNCHANGED NotI
  /\ ipc = "normalized"
  /\ IF in_verbose /\ BlocksLen(I.full_sequence) > 1400
     THEN ipc' = "raised" /\ ierror' = "NameError"
     ELSE ipc' = "returned" /\ UNCHANGED ierror
  /\ UNCHANGED <<in_sequence, in_homooligomer, in_verbose, I>>

INext ==
  \/ \E verbose \in BOOLEAN : Normalize(verbose)
  \/ Finish

(***************************************************************************)
(* prep_msa                                                                *)
(***************************************************************************)
MaxBackendHits == 1

MsaMethods == {"single_sequence", "mmseqs2", "jackhmmer"}
PairModes == {"unpaired", "paired", "unpaired+paired"}

\* the jobs prep_msa is given: what prep_inputs makes of these sequences
MsaSequences == { <<"a", "a">>, <<"a", ":", "a", "a">>,
                  <<"a", "a", ":", "a", ":", "a">> }

\* the source labels of the hits that survive the pairing filters
SourceLabels == <<"X", "Y">>
LabelSets == SUBSET {SourceLabels[i] : i \in 1..Len(SourceLabels)}

\* c * L and [0] * L
Blank(L, c) == [i \in 1..L |-> c]

RECURSIVE Concat(_)
Concat(list) == IF list = <<>> THEN <<>> ELSE list[1] \o Concat(Tail(list))

\* "unpaired" in pair_mode
HasUnpaired(mode) == mode \in {"unpaired", "unpaired+paired"}

\* a pad that writes every value into the first chain's slot
_pad_first(ns, vals, mode) ==
  LET _blank0 == [i \in 1..Len(I.lengths) |->
                    Blank(I.lengths[i], IF mode = "seq" THEN "-" ELSE 0)]
      _blank == [i \in 1..Len(_blank0) |->
                   IF i = 1 /\ Len(vals) > 0 THEN vals[Len(vals)]
                   ELSE _blank0[i]]
  IN Concat(_blank)

\* lines 228-237 (chains count from 1; a single chain n is the list <<n>>)
_pad(ns, vals, mode) ==
  LET _blank0 == [i \in 1..Len(I.lengths) |->
                    Blank(I.lengths[i], IF mode = "seq" THEN "-" ELSE 0)]
      hit(i) == {j \in 1..Min(Len(ns), Len(vals)) : ns[j] = i}
      _blank == [i \in 1..Len(_blank0) |->
                   IF hit(i) # {}
                   THEN vals[CHOOSE j \in hit(i) : \A h \in hit(i) : h <= j]
                   ELSE _blank0[i]]
  IN Concat(_blank)

\* What the backend returns for chain n (parse_a3m of the mmseqs2 answer, or
\* the hit tuples of run_jackhmmer summed): the query chain and h hits,
\* every row as wide as the chain.
BackendRows(n, h) ==
  [msa |-> <<I.seqs[n]>> \o [j \in 1..h |-> Blank(I.lengths[n], "K")],
   mtx |-> <<Blank(I.lengths[n], 0)>> \o [j \in 1..h |-> Blank(I.lengths[n], j)]]

\* lines 264-271: the padded track of chain n
UnpairedTrack(n, rows) ==
  [msa |-> <<I.sequence>> \o
             [j \in 1..Min(Len(rows.msa), Len(rows.mtx)) |->
                _pad(<<n>>, <<rows.msa[j]>>, "seq")],
   mtx |-> <<Blank(Len(I.sequence), 0)>> \o
             [j \in 1..Min(Len(rows.msa), Len(rows.mtx)) |->
                _pad(<<n>>, <<rows.mtx[j]>>, "mtx")]]

AppendTrack(job, t) ==
  [job EXCEPT !.msas = Append(@, t.msa),
              !.deletion_matrices = Append(@, t.mtx)]

\* pairmsa.parse_a3m / pairmsa.get_uni_jackhmmer: the query and the hits of
\* chain a that pass the coverage and identity filters, with their labels
Survivors(a, labels) ==
  LET labs == SelectSeq(SourceLabels, LAMBDA l : l \in labels)
  IN [_msa |-> <<I.seqs[a]>> \o [j \in 1..Len(labs) |-> Blank(I.lengths[a], labs[j])],
      _mtx |-> <<Blank(I.lengths[a], 0)>> \o
                 [j \in 1..Len(labs) |-> Blank(I.lengths[a], 1)],
      _lab |-> <<"query">> \o labs]

\* pairmsa.hash_it: the hits indexed by source label
hash_it(_msa, _lab, _mtx) ==
  [j \in 1..(Len(_msa) - 1) |->
     [lab |-> _lab[j + 1], s |-> _msa[j + 1], m |-> _mtx[j + 1]]]

\* pairmsa._stitch: the rows whose label both chains have, paired row for row
_stitch(da, db) ==
  LET both == SelectSeq(da, LAMBDA r : \E j \in 1..Len(db) : db[j].lab = r.lab)
      other(l) == db[CHOOSE j \in 1..Len(db) : db[j].lab = l]
  IN [seq |-> << [j \in 1..Len(both) |-> both[j].s],
                 [j \in 1..Len(both) |-> other(both[j].lab).s] >>,
      mtx |-> << [j \in 1..Len(both) |-> both[j].m],
                 [j \in 1..Len(both) |-> other(both[j].lab).m] >>]

\* lines 327-333: the padded track of a stitched pair
PairedTrack(a, b, o) ==
  LET rows == Min(Min(Len(o.seq[1]), Len(o.seq[2])),
                  Min(Len(o.mtx[1]), Len(o.mtx[2])))
  IN [msa |-> <<I.sequence>> \o
                [j \in 1..rows |->
                   _pad(<<a, b>>, <<o.seq[1][j], o.seq[2][j]>>, "seq")],
      mtx |-> <<Blank(Len(I.sequence), 0)>> \o
                [j \in 1..rows |->
                   _pad(<<a, b>>, <<o.mtx[1][j], o.mtx[2][j]>>, "mtx")]]

None == [none |-> TRUE, hash |-> <<>>]
Some(h) == [none |-> FALSE, hash |-> h]

Kind(kd, a, b) == [kind |-> kd, a |-> a, b |-> b]

\* line 276
PairingWanted ==
  Len(I.seqs) > 1 /\ pair_mode \in {"paired", "unpaired+paired"}

MStart ==
  /\ n_ = 1 /\ a_ = 1 /\ b_ = 2
  /\ _data = <<>>
  /\ merror = ""
  /\ stitched = {}
  /\ kinds = <<>>

\* The job comes from prep_inputs.  The module never imports pairmsa: the
\* name is bound only if the notebook that loads the module sets it.
MInit ==
  /\ mpc = "start"
  /\ I \in {MakeJob(sq, <<>>).I : sq \in MsaSequences}
  /\ msa_method \in MsaMethods
  /\ pair_mode \in PairModes
  /\ custom \in {"no", "fits", "misfits"}
  /\ pairmsa_bound \in BOOLEAN
  /\ MStart

\* prep_msa at rest
MQuiet ==
  /\ mpc = "idle"
  /\ msa_method = "single_sequence"
  /\ pair_mode = "unpaired"
  /\ custom = "no"
  /\ pairmsa_bound = FALSE
  /\ MStart

\* the uploaded alignment, parsed: one row, of the query's width or not
CustomTrack ==
  LET w == IF custom = "fits" THEN Len(I.sequence) ELSE Len(I.sequence) + 1
  IN [msa |-> <<Blank(w, "A")>>, mtx |-> <<Blank(w, 0)>>]

\* lines 191-239: clear, the custom upload, the single-sequence track
Begin ==
  /\ UNCHANGED NotM
  /\ mpc = "start"
  /\ LET cleared == [I EXCEPT !.msas = <<>>, !.deletion_matrices = <<>>]
         base == IF custom = "no" THEN cleared
                 ELSE AppendTrack(cleared, CustomTrack)
         k0 == IF custom = "no" THEN <<>> ELSE <<Kind("custom", 0, 0)>>
     IN IF custom = "misfits"
        THEN /\ I' = base /\ kinds' = k0
             /\ mpc' = "raised" /\ merror' = "ValueError"
        ELSE IF msa_method = "single_sequence"
        THEN /\ IF Len(base.msas) = 0
                THEN /\ I' = AppendTrack(base,
                               [msa |-> <<I.sequence>>,
                                mtx |-> <<Blank(Len(I.sequence), 0)>>])
                     /\ kinds' = Append(k0, Kind("single", 0, 0))
                ELSE I' = base /\ kinds' = k0
             /\ mpc' = "save" /\ UNCHANGED merror
        ELSE /\ I' = base /\ kinds' = k0
             /\ mpc' = IF Len(I.seqs) = 1 \/ HasUnpaired(pair_mode)
                       THEN "gather"
                       ELSE IF PairingWanted THEN "pair_prep" ELSE "save"
             /\ UNCHANGED merror
  /\ UNCHANGED <<msa_method, pair_mode, custom, pairmsa_bound, n_, a_, b_,
                 _data, stitched>>

\* lines 247-271: the backend's rows of chain n_, padded and appended
GatherChain(h) ==
  /\ UNCHANGED NotM
  /\ mpc = "gather"
  /\ n_ <= Len(I.seqs)
  /\ I' = AppendTrack(I, UnpairedTrack(n_, BackendRows(n_, h)))
  /\ kinds' = Append(kinds, Kind("unpaired", n_, 0))
  /\ n_' = n_ + 1
  /\ mpc' = IF n_ < Len(I.seqs) THEN "gather"
            ELSE IF PairingWanted THEN "pair_prep" ELSE "save"
  /\ UNCHANGED <<msa_method, pair_mode, custom, pairmsa_bound, a_, b_, _data,
                 merror, stitched>>

\* lines 286-306: the labelled hits of chain a_
PairPrep(labels) ==
  /\ UNCHANGED NotM
  /\ mpc = "pair_prep"
  /\ a_ <= Len(I.seqs)
  /\ IF ~pairmsa_bound
     THEN /\ mpc' = "raised" /\ merror' = "NameError"
          /\ UNCHANGED <<_data, a_>>
     ELSE /\ LET sv == Survivors(a_, labels)
             IN _data' = Append(_data,
                           IF Len(sv._msa) > 1
                           THEN Some(hash_it(sv._msa, sv._lab, sv._mtx))
                           ELSE None)
          /\ a_' = IF a_ < Len(I.seqs) THEN a_ + 1 ELSE 1
          /\ mpc' = IF a_ < Len(I.seqs) THEN "pair_prep" ELSE "pair"
          /\ UNCHANGED merror
  /\ UNCHANGED <<I, msa_method, pair_mode, custom, pairmsa_bound, n_, b_,
                 stitched, kinds>>

\* lines 310-337: the pair (a_, b_)
PairStep ==
  /\ UNCHANGED NotM
  /\ mpc = "pair"
  /\ IF ~_data[a_].none /\ ~_data[b_].none
     THEN LET o == _stitch(_data[a_].hash, _data[b_].hash)
          IN /\ stitched' = stitched \cup {<<a_, b_>>}
             /\ IF Len(o.seq[1]) > 0
                THEN /\ I' = AppendTrack(I, PairedTrack(a_, b_, o))
                     /\ kinds' = Append(kinds, Kind("paired", a_, b_))
                ELSE UNCHANGED <<I, kinds>>
     ELSE UNCHANGED <<I, kinds, stitched>>
  /\ IF b_ < Len(I.seqs)
     THEN b_' = b_ + 1 /\ UNCHANGED <<a_, mpc>>
     ELSE IF a_ + 1 < Len(I.seqs)
          THEN a_' = a_ + 1 /\ b_' = a_ + 2 /\ UNCHANGED mpc
          ELSE mpc' = "save" /\ UNCHANGED <<a_, b_>>
  /\ UNCHANGED <<msa_method, pair_mode, custom, pairmsa_bound, n_, _data,
                 merror>>

\* lines 342-344: the snapshot msa.pickle and the return
Save ==
  /\ UNCHANGED NotM
  /\ mpc = "save"
  /\ mpc' = "returned"
  /\ UNCHANGED <<I, msa_method, pair_mode, custom, pairmsa_bound, n_, a_, b_,
                 _data, merror, stitched, kinds>>

MNext ==
  \/ Begin
  \/ \E h \in 0..MaxBackendHits : GatherChain(h)
  \/ \E labels \in LabelSets : PairPrep(labels)
  \/ PairStep
  \/ Save

(***************************************************************************)
(* prep_filter                                                             *)
(***************************************************************************)
MaxTrimLen == 2

TrimAlphabet == {"a", "b", "1", ",", " "}
FilterSequences == { <<"a">>, <<"a", ":", "a", "a">>, <<"a", "a", ":", "a">> }
FilterOligos == { <<"1">>, <<"2", ":", "3">> }

\* a track as prep_msa leaves it: the query, a hit on the first chain, and
\* a hit on every column
FilterTrack(job) ==
  <<job.sequence,
    [c \in 1..Len(job.sequence) |-> IF c <= job.lengths[1] THEN "A" ELSE "-"],
    [c \in 1..Len(job.sequence) |-> "K"]>>

\* the job after prep_inputs and prep_msa
JobWithMsa(job) ==
  [job EXCEPT !.msas = <<FilterTrack(job)>>,
              !.deletion_matrices =
                 <<[j \in 1..3 |-> [c \in 1..Len(job.sequence) |-> 0]]>>]

\* lines 347-350
NormalizeTrim(trim) ==
  LET t1 == Keep(Upper(trim), Digits \cup UpperLetters \cup {",", "-"})
      t2 == SubRuns(t1, {","}, <<",">>)
      t3 == StripLeading(t2, {","})
  IN StripTrailing(t3, {","})

\* a second name for the same dict object
dict_alias(h, id) == [heap |-> h, id |-> id]

\* dict(I): a new dict object with the entries of object id
dict(h, id) == [heap |-> Append(h, h[id]), id |-> Len(h) + 1]

\* d.update(fields)
update(d, fields) ==
  [f \in DOMAIN d \cup DOMAIN fields |->
     IF f \in DOMAIN fields THEN fields[f] ELSE d[f]]

\* the chain a piece of trim names by its letter, 0 if it names none
NamedChain(piece, n) ==
  IF Len(piece) = 1 /\ \E c \in 1..n : <<"A", "B", "C">>[c] = piece[1]
  THEN CHOOSE c \in 1..n : <<"A", "B", "C">>[c] = piece[1]
  ELSE 0

\* cf.trim_inputs, for pieces that name whole chains: new lists with the
\* columns of the chains left, rows of gaps only dropped; any other piece
\* is refused.  Chains are counted from 1 here.
trim_inputs(trim, ms, mtxs, ori, inverse) ==
  LET ori_chains == Split(ori, ":")
      n == Len(ori_chains)
      pieces == Split(trim, ",")
      named == {NamedChain(pieces[j], n) : j \in 1..Len(pieces)}
      kept == IF inverse THEN named ELSE (1..n) \ named
      lens == [c \in 1..n |-> Len(Remove(ori_chains[c], "/"))]
      cols == {c \in 1..SumTo(lens, n) :
                 \E a \in kept : SumTo(lens, a - 1) < c /\ c <= SumTo(lens, a)}
      rows(t) == [j \in 1..Len(ms[t]) |-> Pick(ms[t][j], cols)]
      ok(t) == {j \in 1..Len(ms[t]) :
                  \E c \in 1..Len(rows(t)[j]) : rows(t)[j][c] # "-"}
  IN IF n > 3 \/ 0 \in named
     THEN [err |-> "ValueError", fields |-> <<>>]
     ELSE [err |-> "",
           fields |->
             [msas |-> [t \in 1..Len(ms) |-> Pick(rows(t), ok(t))],
              deletion_matrices |->
                 [t \in 1..Len(ms) |->
                    Pick([j \in 1..Len(mtxs[t]) |-> Pick(mtxs[t][j], cols)],
                         ok(t))],
              ori_sequence |-> Join(Pick(ori_chains, kept), ":"),
              chains |-> Pick([c \in 1..n |-> c], kept)]]

\* lines 358-361
Recomputed(d) ==
  LET homooligomers_ ==
        [j \in 1..Len(d.chains) |-> d.homooligomers[d.chains[j]]]
      seqs_ == Split(Remove(d.ori_sequence, "/"), ":")
  IN [homooligomers |-> homooligomers_,
      sequence |-> Remove(Remove(d.ori_sequence, "/"), ":"),
      seqs |-> seqs_,
      full_sequence |->
         [j \in 1..Min(Len(seqs_), Len(homooligomers_)) |->
            Times(seqs_[j], homooligomers_[j])]]

\* cf.cov_qid_filter: new lists with the rows whose coverage and identity
\* to the query reach cov and qid (in percent); the query's row stays
cov_qid_filter(ms, mtxs, ori, cov, qid) ==
  LET query == Remove(Remove(ori, "/"), ":")
      L == Len(query)
      covers(row) ==
        100 * Cardinality({c \in 1..Len(row) : row[c] # "-"}) >= cov * L
      matches(row) ==
        100 * Cardinality({c \in 1..Min(L, Len(row)) : row[c] = query[c]})
          >= qid * L
      ok(t) == {j \in 1..Len(ms[t]) :
                  j = 1 \/ (covers(ms[t][j]) /\ matches(ms[t][j]))}
  IN [msas |-> [t \in 1..Len(ms) |-> Pick(ms[t], ok(t))],
      deletion_matrices |-> [t \in 1..Len(ms) |-> Pick(mtxs[t], ok(t))]]

FInit ==
  /\ fpc = "start"
  /\ \E s \in FilterSequences, o \in FilterOligos :
        heap = <<JobWithMsa(MakeJob(s, o).I)>>
  /\ I_before = heap[1]
  /\ f_trim = <<>> /\ f_inverse = FALSE /\ f_cov = 0 /\ f_qid = 0
  /\ f_ret = 0 /\ ferror = ""

\* prep_filter at rest
FQuiet ==
  /\ fpc = "idle" /\ heap = <<>> /\ I_before = NoJob
  /\ f_trim = <<>> /\ f_inverse = FALSE /\ f_cov = 0 /\ f_qid = 0
  /\ f_ret = 0 /\ ferror = ""

\* lines 346-372, called on the dict object id; the locals of the call are
\* bound one after the other
prep_filter(id, trim, trim_inverse, cov, qid) ==
  /\ UNCHANGED NotF
  /\ fpc = "start"
  /\ f_inverse' = trim_inverse /\ f_cov' = cov /\ f_qid' = qid
  /\ \E t \in {NormalizeTrim(trim)} :
       /\ f_trim' = t
       /\ IF t # <<>> \/ cov > 0 \/ qid > 0
          THEN \E mod_I \in {dict(heap, id)} :
               \E d0 \in {mod_I.heap[mod_I.id]} :
               \E trimmed \in {IF t # <<>>
                                THEN trim_inputs(t, d0.msas,
                                       d0.deletion_matrices, d0.ori_sequence,
                                       trim_inverse)
                                ELSE [err |-> "", fields |-> <<>>]} :
                 IF trimmed.err # ""
                 THEN /\ heap' = mod_I.heap
                      /\ fpc' = "raised" /\ ferror' = trimmed.err
                      /\ f_ret' = 0
                 ELSE \E d1 \in {IF t # <<>> THEN update(d0, trimmed.fields)
                                  ELSE d0} :
                      \E d2 \in {IF t # <<>> THEN update(d1, Recomputed(d1))
                                  ELSE d1} :
                      \E d3 \in {IF cov > 0 \/ qid > 0
                                  THEN update(d2, cov_qid_filter(d2.msas,
                                         d2.deletion_matrices,
                                         d2.ori_sequence, cov, qid))
                                  ELSE d2} :
                        /\ heap' = [mod_I.heap EXCEPT ![mod_I.id] = d3]
                        /\ fpc' = "returned" /\ ferror' = ""
                        /\ f_ret' = mod_I.id
          ELSE /\ heap' = heap
               /\ fpc' = "returned" /\ ferror' = ""
               /\ f_ret' = id
  /\ UNCHANGED I_before

FNext ==
  \E trim \in StringsUpTo(TrimAlphabet, MaxTrimLen), trim_inverse \in BOOLEAN,
     cov \in {0, 50}, qid \in {0, 60} :
       prep_filter(1, trim, trim_inverse, cov, qid)

(***************************************************************************)
(* do_subsample_msa                                                        *)
(***************************************************************************)
MaxRows == 5

\* 3E7 of line 389
memory_budget == 30000000

\* len(F["residue_index"]): the budget is 5, 4, 3, 2, 1 and 0 rows
ResidueCounts == {6000000, 7500000, 10000000, 15000000, 30000000, 30000001}

\* an array of n equal entries
Full(n, fill) == [n |-> n, fill |-> fill]

\* a feature dict of N alignment rows for L residues
Features(N, L) ==
  [msa |-> [j \in 1..N |-> <<"msa", j - 1>>],
   deletion_matrix_int |-> [j \in 1..N |-> <<"del", j - 1>>],
   num_alignments |-> Full(L, N),
   residue_index |-> Full(L, 0),
   aatype |-> "aatype"]

\* the orders np.random.permutation(np.arange(1, N)) can give
Permutations1(N) ==
  {p \in [1..(N - 1) -> 1..(N - 1)] :
     \A i, j \in 1..(N - 1) : i # j => p[i] # p[j]}

\* line 389: int(3E7/L), for L >= 1
N_of(L) == memory_budget \div L

\* row 0 drawn like any other row
idx_unpinned(perm, B) == SubSeq(perm \o <<0>>, 1, Min(B, Len(perm) + 1))

\* line 393: np.append(0, perm)[:N_]
idx(perm, B) == SubSeq(<<0>> \o perm, 1, Min(B, Len(perm) + 1))

SInit ==
  /\ spc = "start"
  /\ \E N \in 1..MaxRows, L \in ResidueCounts : F = Features(N, L)
  /\ s_perm = <<>>
  /\ F_ = F
  /\ s_same = FALSE

\* do_subsample_msa at rest
SQuiet ==
  /\ spc = "idle" /\ F = Features(0, 1) /\ s_perm = <<>> /\ F_ = F
  /\ s_same = FALSE

\* lines 385-402
do_subsample_msa(perm) ==
  /\ UNCHANGED NotS
  /\ spc = "start"
  /\ LET N == Len(F.msa)
         L == F.residue_index.n
     IN IF N > N_of(L)
        THEN /\ perm \in Permutations1(N)
             /\ s_perm' = perm
             /\ LET rows == idx(perm, N_of(L))
                IN F_' = [F EXCEPT
                            !.msa = [j \in 1..Len(rows) |-> F.msa[rows[j] + 1]],
                            !.deletion_matrix_int =
                               [j \in 1..Len(rows) |->
                                  F.deletion_matrix_int[rows[j] + 1]],
                            !.num_alignments =
                               Full(F.num_alignments.n, N_of(L))]
             /\ s_same' = FALSE
        ELSE /\ perm = <<>>
             /\ s_perm' = perm
             /\ F_' = F
             /\ s_same' = TRUE
  /\ spc' = "returned"
  /\ UNCHANGED F

SNext ==
  \E perm \in UNION {Permutations1(N) : N \in 1..MaxRows} :
     do_subsample_msa(perm)

(***************************************************************************)
(* The hit assembly of lines 102-121 on searches of many hits              *)
(***************************************************************************)
MaxOver == 2
MaxChunks == 2

\* row counts of a search: a few, and those around the limit of mgnify
HitCounts ==
  (1..(MaxOver + 1)) \cup {mgnify_max_hits + d - 1 : d \in 0..MaxOver}

Patterns == {"ascending", "descending", "ties"}

HitName(i) == IF i = 0 THEN QueryName ELSE TargetName(<<"U", i>>, "1-5")

\* the e-value the tblout table has for hit i of n rows; 0 for the query
EValue(pattern, i, n) ==
  IF i = 0 THEN 0
  ELSE IF pattern = "ascending" THEN i
  ELSE IF pattern = "descending" THEN n - i
  ELSE 1 + (i % 3)

\* a search of n rows streamed in chunks: each chunk starts with the
\* query's row and holds its share of the hits 1..n-1
StreamedChunks(n, chunks, pattern) ==
  LET size == (n - 1 + chunks - 1) \div chunks
      lo(c) == (c - 1) * size + 1
      hi(c) == Min(c * size, n - 1)
      count(c) == IF hi(c) >= lo(c) THEN hi(c) - lo(c) + 2 ELSE 1
      hit(c, j) == IF j = 1 THEN 0 ELSE lo(c) + j - 2
  IN [c \in 1..chunks |->
        Chunk([j \in 1..count(c) |-> Row(hit(c, j), HitName(hit(c, j)))],
              [b \in {HitName(hit(c, j)).base : j \in 1..count(c)} |->
                 EValue(pattern, b[2], n)])]

\* nothing assembled yet
NoHits ==
  [err |-> "", db_msas |-> <<>>, db_deletion_matrices |-> <<>>,
   db_names |-> <<>>]

AInit ==
  /\ apc = "start"
  /\ a_db \in {DbNames[i] : i \in 1..Len(DbNames)}
  /\ a_n \in HitCounts
  /\ a_chunks \in 1..MaxChunks
  /\ a_pattern \in Patterns
  /\ a_out = NoHits

\* the assembly at rest
AQuiet ==
  /\ apc = "idle" /\ a_db = "uniref90" /\ a_n = 0 /\ a_chunks = 0
  /\ a_pattern = "ascending" /\ a_out = NoHits

\* lines 102-121 for the database a_db
Assemble ==
  /\ UNCHANGED NotA
  /\ apc = "start"
  /\ a_out' = AssembleDb(a_db, StreamedChunks(a_n, a_chunks, a_pattern))
  /\ apc' = "done"
  /\ UNCHANGED <<a_db, a_n, a_chunks, a_pattern>>

ANext == Assemble

(***************************************************************************)
(* Specifications                                                          *)
(***************************************************************************)
InitJackhmmer ==
  JInit /\ IQuiet /\ I = NoJob /\ MQuiet /\ FQuiet /\ SQuiet /\ AQuiet
SpecJackhmmer == InitJackhmmer /\ [][JNext]_vars

InitInputs == IInit /\ JQuiet /\ MQuiet /\ FQuiet /\ SQuiet /\ AQuiet
SpecInputs == InitInputs /\ [][INext]_vars

InitMsa == MInit /\ JQuiet /\ IQuiet /\ FQuiet /\ SQuiet /\ AQuiet
SpecMsa == InitMsa /\ [][MNext]_vars

InitFilter ==
  FInit /\ JQuiet /\ IQuiet /\ I = NoJob /\ MQuiet /\ SQuiet /\ AQuiet
SpecFilter == InitFilter /\ [][FNext]_vars

InitSubsample ==
  SInit /\ JQuiet /\ IQuiet /\ I = NoJob /\ MQuiet /\ FQuiet /\ AQuiet
SpecSubsample == InitSubsample /\ [][SNext]_vars

InitAssemble ==
  AInit /\ JQuiet /\ IQuiet /\ I = NoJob /\ MQuiet /\ FQuiet /\ SQuiet
SpecAssemble == InitAssemble /\ [][ANext]_vars

(***************************************************************************)
(* Properties of run_jackhmmer                                             *)
(***************************************************************************)
\* C1: in the mirror selection of a cache miss, whatever the order and the
\* outcome of the three probes, the selection does not raise when a probe
\* succeeds (also when a failing probe completes before it): the run is
\* aborted by the selection only if no probe succeeds.
C1_MirrorSelection ==
  (jpc = "raised" /\ error = "URLError") => \A s \in Sources : probe[s] # "ok"

\* C2: once a call has completed successfully for a prefix, every later
\* call with that prefix submits no probe, queries no database and returns
\* the msas, deletion_matrices and names of the first call, which are what
\* the pickle file holds.
C2_CacheShortCircuit ==
  (ncalls > 0 /\ ok_before) =>
     /\ ~probed /\ ~searched
     /\ jpc = "returned"
     /\ ret = first_ok[prefix].val
     /\ files[prefix] = pickle_dump(ret)

\* a later call has returned the three hit lists of a completed search
C2_Witness ==
  /\ ok_before /\ jpc = "returned"
  /\ Len(ret.msas) = 3 /\ Len(ret.msas[3]) > 1

\* C3: a call that finds the pickle file missing, unreadable or without one
\* of the fields msas / deletion_matrices / names does not raise on it: it
\* goes on to the mirror selection, and what it returns comes from a fresh
\* search.
C3_CorruptCacheRecovered ==
  (ncalls > 0 /\ (~isfile(file_at_start) \/ LoadError(file_at_start) # ""))
     => /\ probed
        /\ jpc = "returned" => searched
(***************************************************************************)
(* Properties of prep_inputs                                               *)
(***************************************************************************)
\* the pieces of the cleaned oligomer string, and whether each is a number
C4_Pieces == Split(CleanHomooligomer(in_homooligomer), ":")
C4_Parses == \A j \in 1..Len(C4_Pieces) : IntOk(C4_Pieces[j])
C4_Given == [j \in 1..Len(C4_Pieces) |-> int(C4_Pieces[j])]

\* the multiplicities of the job are those the oligomer string gives: the
\* single value for every chain, else the first values in order, then 1
MultiplicitiesReconciled ==
  LET n == Len(I.seqs)
      given == Len(C4_Given)
      h == I.homooligomers
  IN /\ given >= 1
     /\ Len(h) = n
     /\ given = 1 => \A j \in 1..n : h[j] = C4_Given[1]
     /\ given # 1 => \A j \in 1..n :
                       h[j] = IF j <= given THEN C4_Given[j] ELSE 1

\* C4: for every sequence of n chains and every oligomer string that parses
\* to k >= 1 integers, prep_inputs returns a job with exactly n
\* multiplicities: the single value for every chain if k = 1, else the
\* first min(k, n) values in order, followed by 1 for the chains left; the
\* call is not aborted.
C4_OneMultiplicityPerChain ==
  (ipc \in {"returned", "raised"} /\ C4_Parses) =>
     ipc = "returned" /\ MultiplicitiesReconciled

(***************************************************************************)
(* Properties of prep_msa                                                  *)
(***************************************************************************)
\* column c lies in the range of chain n
InChain(n, c) ==
  SumTo(I.lengths, n - 1) < c /\ c <= SumTo(I.lengths, n)

\* C5: every padded track of the job (per-chain, single-sequence, stitched)
\* starts with the query and an all-zero deletion row, all its rows and
\* deletion rows are as wide as the query, a hit of chain n fills exactly
\* the columns of chain n, and the columns of the other chains hold '-'
\* with deletion count 0.
C5_PaddedTracks ==
  /\ Len(kinds) = Len(I.msas)
  /\ \A t \in 1..Len(kinds) :
       kinds[t].kind # "custom" =>
         LET msa == I.msas[t]
             mtx == I.deletion_matrices[t]
             W == Len(I.sequence)
             own(c) == \/ InChain(kinds[t].a, c)
                       \/ kinds[t].kind = "paired" /\ InChain(kinds[t].b, c)
         IN /\ Len(mtx) = Len(msa)
            /\ msa[1] = I.sequence
            /\ mtx[1] = [c \in 1..W |-> 0]
            /\ \A j \in 1..Len(msa) : Len(msa[j]) = W /\ Len(mtx[j]) = W
            /\ kinds[t].kind \in {"unpaired", "paired"} =>
                 \A j \in 2..Len(msa) : \A c \in 1..W :
                    IF own(c)
                    THEN /\ msa[j][c] # "-"
                         /\ mtx[j][c] = IF kinds[t].kind = "paired" THEN 1
                                        ELSE j - 2
                    ELSE msa[j][c] = "-" /\ mtx[j][c] = 0

\* a three-chain job holds a per-chain track with a hit and a stitched track
C5_Witness ==
  /\ Len(I.seqs) = 3
  /\ \E t \in 1..Len(kinds) :
        kinds[t].kind = "unpaired" /\ kinds[t].a = 2 /\ Len(I.msas[t]) = 3
  /\ \E t \in 1..Len(kinds) :
        kinds[t].kind = "paired" /\ kinds[t].a = 1 /\ kinds[t].b = 3

Pairable(a) == ~_data[a].none
LabelsOf(a) == {_data[a].hash[j].lab : j \in 1..Len(_data[a].hash)}
ChainPairs == {ab \in (1..Len(I.seqs)) \X (1..Len(I.seqs)) : ab[1] < ab[2]}
PairedTracks(a, b) ==
  {t \in 1..Len(kinds) : kinds[t] = Kind("paired", a, b)}

\* the pairing of a call that ended is as the claim has it
PairingAsClaimed ==
  /\ Len(_data) = Len(I.seqs)
  /\ \A ab \in ChainPairs :
       /\ ab \in stitched <=> (Pairable(ab[1]) /\ Pairable(ab[2]))
       /\ Cardinality(PairedTracks(ab[1], ab[2])) =
            IF /\ Pairable(ab[1]) /\ Pairable(ab[2])
               /\ LabelsOf(ab[1]) \cap LabelsOf(ab[2]) # {}
            THEN 1 ELSE 0

\* C6: with a pairing mode and at least 2 chains, every pair a < b of chains
\* that both have more than one surviving hit is stitched, whatever became
\* of earlier pairs; a pair with a matched row appends exactly one track, a
\* pair without a shared label appends none and raises no error, and a
\* chain with at most one surviving hit is in no pair.
C6_EveryPairStitched ==
  (/\ mpc \in {"returned", "raised"}
   /\ msa_method # "single_sequence" /\ custom # "misfits"
   /\ PairingWanted)
     => merror = "" /\ PairingAsClaimed

FilterAsked == f_trim # <<>> \/ f_cov > 0 \/ f_qid > 0

\* C7: prep_filter never changes the job it is given: with a non-empty trim
\* or a positive cov or qid it returns another object and every field of
\* the original keeps its value (also when the call raises); with an empty
\* normalized trim and cov = 0 and qid = 0 it returns the very object it
\* was given, unchanged.
C7_OriginalUntouched ==
  fpc \in {"returned", "raised"} =>
     /\ heap[1] = I_before
     /\ fpc = "returned" => IF FilterAsked THEN f_ret # 1 ELSE f_ret = 1

\* a trim and a filter were applied: the copy differs, the original stands
C7_Witness ==
  /\ fpc = "returned" /\ f_trim = <<"A">> /\ f_cov > 0
  /\ f_ret = 2
  /\ heap[2].seqs # heap[1].seqs /\ heap[2].msas # heap[1].msas
  /\ Len(heap[1].msas[1]) = 3

(***************************************************************************)
(* Properties of do_subsample_msa                                          *)
(***************************************************************************)
SubN == Len(F.msa)
SubB == N_of(F.residue_index.n)

\* the rows returned are B distinct rows of the input, msa and deletion
\* rows of the same input row at each place; every num_alignments is B
SubsampledToBudget ==
  /\ ~s_same
  /\ Len(F_.msa) = SubB /\ Len(F_.deletion_matrix_int) = SubB
  /\ \A j \in 1..SubB :
        \E r \in 0..(SubN - 1) :
           F_.msa[j] = F.msa[r + 1]
             /\ F_.deletion_matrix_int[j] = F.deletion_matrix_int[r + 1]
  /\ \A i, j \in 1..SubB : i # j => F_.msa[i] # F_.msa[j]
  /\ F_.num_alignments = Full(F.num_alignments.n, SubB)

\* C8 as stated: for every N, L and seed, with B = floor(3*10^7 / L): if
\* N > B the output has exactly B distinct input rows, its row 0 is the
\* input's row 0 and every num_alignments is B; if N <= B the input is
\* returned unchanged; the output never has more than B rows.
C8_AsStated ==
  spc = "returned" =>
     /\ Len(F_.msa) <= SubB
     /\ SubN <= SubB => s_same /\ F_ = F
     /\ SubN > SubB =>
          /\ SubsampledToBudget
          /\ Len(F_.msa) >= 1
          /\ F_.msa[1] = F.msa[1]
          /\ F_.deletion_matrix_int[1] = F.deletion_matrix_int[1]

\* C8 amended: the same, but row 0 is kept only if the budget B is at least
\* 1; for L > 3*10^7 the budget is 0 and the output has no row at all.
C8_Subsampled ==
  spc = "returned" =>
     /\ Len(F_.msa) <= SubB
     /\ SubN <= SubB => s_same /\ F_ = F
     /\ SubN > SubB =>
          /\ SubsampledToBudget
          /\ SubB >= 1 =>
               /\ F_.msa[1] = F.msa[1]
               /\ F_.deletion_matrix_int[1] = F.deletion_matrix_int[1]
          /\ SubB = 0 => F_.msa = <<>>

\* five rows cut to three: the query, then rows 4 and 2
C8_Witness ==
  /\ spc = "returned" /\ SubN = 5 /\ SubB = 3
  /\ F_.msa = <<F.msa[1], F.msa[5], F.msa[3]>>

(***************************************************************************)
(* Properties of the hit assembly                                          *)
(***************************************************************************)
\* the input row that entry j of the stored lists was made from
StoredHit(j) == a_out.db_msas[j][2]

\* C9: the stored list of a database is the rows of all its chunks, a row
\* named 'query' from the first chunk only, in ascending order of e-value;
\* for mgnify it is the first min(501, n) rows of that order, for uniref90
\* and smallbfd all n rows; msas, deletion_matrices and names are aligned
\* entry for entry.
C9_HitsAssembled ==
  apc = "done" =>
     LET len == IF a_db = "mgnify" THEN Min(mgnify_max_hits, a_n) ELSE a_n
         stored == {StoredHit(j) : j \in 1..len}
     IN /\ a_out.err = ""
        /\ Len(a_out.db_msas) = len
        /\ Len(a_out.db_deletion_matrices) = len
        /\ Len(a_out.db_names) = len
        /\ \A j \in 1..len :
              /\ StoredHit(j) \in 0..(a_n - 1)
              /\ a_out.db_msas[j] = Row(StoredHit(j), QueryName).msa
              /\ a_out.db_deletion_matrices[j] = Row(StoredHit(j), QueryName).del
              /\ a_out.db_names[j] = HitName(StoredHit(j))
        /\ Cardinality(stored) = len
        /\ \A j \in 1..(len - 1) :
              EValue(a_pattern, StoredHit(j), a_n)
                <= EValue(a_pattern, StoredHit(j + 1), a_n)
        /\ \A d \in (0..(a_n - 1)) \ stored :
              EValue(a_pattern, StoredHit(len), a_n) <= EValue(a_pattern, d, a_n)

\* 502 mgnify rows of descending e-values in two chunks: 501 are stored,
\* the query first, the last hit next
C9_Witness ==
  /\ apc = "done" /\ a_db = "mgnify" /\ a_n = mgnify_max_hits + 1
  /\ a_chunks = 2 /\ a_pattern = "descending"
  /\ Len(a_out.db_names) = mgnify_max_hits
  /\ a_out.db_names[1] = QueryName
  /\ a_out.db_names[2] = HitName(mgnify_max_hits)

(***************************************************************************)
(* Properties of the cache file                                            *)
(***************************************************************************)
\* the cache file of prefix p is one a later call can load
Loadable(p) == isfile(files[p]) /\ LoadError(files[p]) = ""

\* C11: whenever no call is running, also after a call that was aborted
\* while it assembled the hits of a database, a cache file that can be
\* loaded holds the hit lists of all three databases, so a call that
\* returns (from the cache or from a search) returns three lists.
C11_CacheHoldsAllDatabases ==
  JIdle =>
     /\ \A p \in Prefixes :
           Loadable(p) => Len(files[p].obj["msas"]) = Len(DbNames)
     /\ jpc = "returned" => Len(ret.msas) = Len(DbNames)

====
